---- MODULE Spec2Model ----
(***************************************************************************)
(* The LSP client of src/src/lib.rs: one run of the test                   *)
(* find_dead_code_in_cargo_workspace against a rust-analyzer child         *)
(* process.  The client is single threaded; every write to req_to_ra and   *)
(* every read from rsp_from_ra is one step.  The server is the             *)
(* environment: at each read it delivers any message of ServerMessages.    *)
(***************************************************************************)
EXTENDS Integers, Sequences, FiniteSets, TLC

\* ---------------------------------------------------------------- bounds
\* Longest symbol list the server returns for workspace/symbol.
MaxSyms == 2
\* Longest location list the server returns for textDocument/references.
MaxRefs == 1
\* How far behind the pending request's id the id of a delivered Response
\* may be (0 = the server always echoes the pending id).
MaxStale == 1

\* ------------------------------------------------------- program constants
\* lsp_server::ErrorCode::ContentModified as i32
ContentModified == -32801
\* an error code that is not ContentModified (RequestCanceled)
OtherErrorCode == ContentModified + 1
\* "pub fn ".len() as u32 + 1
PubFnOffset == 8
\* the initial value of the counter, ReqId(0)
ReqIdStart == 0

\* the delays of a backoff that doubles at every step
delays_Doubling == <<40, 80, 160, 320, 640, 1280, 2560, 5120, 10240>>

delays == <<40, 80, 160, 160, 320, 320, 640, 2560, 10240>>

FUNCTION == "FUNCTION"
STRUCT == "STRUCT"

\* <T as Request>::METHOD / <T as Notification>::METHOD
Initialize == "initialize"
Initialized == "initialized"
AnalyzerStatus == "rust-analyzer/analyzerStatus"
WorkspaceSymbol == "workspace/symbol"
References == "textDocument/references"
Shutdown == "shutdown"
Exit == "exit"

\* The lines the program prints.
ReadyLine == "rust-analyzer blocking for cargo check total wait is"
NoneLine == "References return None"

VARIABLES
    pc,         \* position of the test function
    req_id,     \* Ctx.req_id.0
    wire,       \* the messages written to req_to_ra, in order
    rsp_id,     \* rsp.id while a Response read is bound to rsp, as an Option
    rcvd,       \* what each read of rsp_from_ra returned, in order (see Logged)
    delay_idx,  \* position of the for loop over the delays
    slept,      \* the durations of the calls of std::thread::sleep, in order
    symbols,    \* workspace_symbol_rsp.unwrap(), the list the scan iterates
    idx,        \* position of the for loop over symbols
    stdout,     \* the lines printed by println!
    stderr,     \* the findings printed by eprintln!: (path, symbol.name)
    panic,      \* the panic that ended the run ("" while there is none)
    workspace   \* what the server has indexed: "any" list of symbols, or the "sample"

vars == <<pc, req_id, wire, rsp_id, rcvd, delay_idx, slept, symbols, idx, stdout, stderr, panic,
          workspace>>

\* ------------------------------------------------------------ the server
\* The workspace of the doc comment, plus one symbol that is no function.
SymbolUniverse ==
    { [name |-> "main", kind |-> FUNCTION, uri |-> "crates/callee/src/main.rs", line |-> 0, character |-> 0],
      [name |-> "used_pub", kind |-> FUNCTION, uri |-> "crates/pub_util/src/lib.rs", line |-> 0, character |-> 0],
      [name |-> "unused_pub", kind |-> FUNCTION, uri |-> "crates/pub_util/src/lib.rs", line |-> 1, character |-> 0],
      [name |-> "Config", kind |-> STRUCT, uri |-> "crates/pub_util/src/lib.rs", line |-> 2, character |-> 4] }

SymLists == UNION { [1..n -> SymbolUniverse] : n \in 0..MaxSyms }

\* The workspace of the doc comment: used_pub, unused_pub and main, which a
\* server may list in any order.
SampleSymbols == { s \in SymbolUniverse : s.kind = FUNCTION }
SampleLists ==
    { l \in [1..Cardinality(SampleSymbols) -> SampleSymbols] :
        \A i, j \in DOMAIN l : i # j => l[i] # l[j] }

\* the symbol lists the server may answer workspace/symbol with
ServerSymLists == IF workspace = "sample" THEN SampleLists ELSE SymLists

\* A serde_json::Value, by its shape: t is what the JSON is, n the length of
\* an array of locations, syms the content of an array of symbols.
JObject == [t |-> "object", n |-> 0, syms |-> <<>>]
JString == [t |-> "string", n |-> 0, syms |-> <<>>]
JNumber == [t |-> "number", n |-> 0, syms |-> <<>>]
JSymbols(s) == [t |-> "symbols", n |-> Len(s), syms |-> s]
JLocation == [t |-> "location", n |-> 1, syms |-> <<>>]
JLocations(n) == [t |-> "locations", n |-> n, syms |-> <<>>]
JLinks(n) == [t |-> "links", n |-> n, syms |-> <<>>]

\* The "result" of a successful Response to a method, as an Option: {} is
\* "result": null, which lsp_server reads as None.  initialize answers an
\* InitializeResult, analyzerStatus a string, shutdown null; the two queries
\* answer null, a value of the expected shape or one of another shape.  An
\* empty JSON array is JLocations(0) whatever its elements were meant to be.
ServerResults(method) ==
    CASE method = Initialize -> {{JObject}}
      [] method = AnalyzerStatus -> {{JString}}
      [] method = WorkspaceSymbol ->
            {{}, {JNumber}} \cup {{JSymbols(s)} : s \in ServerSymLists}
      [] method = References ->
            {{}, {JLocation}, {JNumber}}
                \cup {{JLocations(n)} : n \in 0..MaxRefs}
                \cup {{JLinks(n)} : n \in 1..MaxRefs}
      [] OTHER -> {{}}

ErrorCodes == {ContentModified, OtherErrorCode}

\* An Option<T> is the set of its values: {} is None, {v} is Some(v).
Eof == [type |-> "Eof", id |-> 0, result |-> {}, error |-> {}]

LastWritten == wire[Len(wire)]

StaleIds(id) == { i \in (id - MaxStale)..id : i >= 0 }

\* What the next Message::read may return while the request LastWritten is
\* pending: a Response (with the pending id or a stale one; a result, an
\* absent result or an error), a Notification, a Request, or end of stream.
ServerMessages ==
    { [type |-> "Response", id |-> i, result |-> r, error |-> {}] :
        i \in StaleIds(LastWritten.id),
        r \in ServerResults(LastWritten.method) }
    \cup
    { [type |-> "Response", id |-> i, result |-> {}, error |-> {c}] :
        i \in StaleIds(LastWritten.id), c \in ErrorCodes }
    \cup
    { [type |-> "Notification", id |-> 0, result |-> {}, error |-> {}],
      [type |-> "Request", id |-> 1, result |-> {}, error |-> {}],
      Eof }

\* The shape of a "result": absent, a list of locations that is empty or
\* not, a single location, a list of symbols, anything else.
Shape(result) ==
    IF result = {} THEN "absent"
    ELSE IF \E v \in result : v.t \in {"locations", "links"} /\ v.n = 0 THEN "empty"
    ELSE IF \E v \in result : v.t \in {"locations", "links"} /\ v.n >= 1 THEN "nonempty"
    ELSE IF \E v \in result : v.t = "location" THEN "scalar"
    ELSE IF \E v \in result : v.t = "symbols" THEN "symbols"
    ELSE "other"

\* What the log keeps of a message read while the Request req was pending:
\* the method it answers, its type, its error and the shape of its result.
Logged(req, msg) ==
    [method |-> req.method, type |-> msg.type, error |-> msg.error,
     result |-> Shape(msg.result)]

\* ------------------------------------------------------------ the client
inc(n) == n + 1

Req(id, method) ==
    [type |-> "Request", id |-> id, method |-> method,
     uri |-> "", line |-> 0, character |-> 0, token |-> 0]

Notif(method) ==
    [type |-> "Notification", id |-> 0, method |-> method,
     uri |-> "", line |-> 0, character |-> 0, token |-> 0]

\* ReadFailure taking every message that is read for a Response
ReadFailure_OnlyEof(msg) ==
    IF msg.type = "Eof" THEN "unwrap" ELSE ""

\* Message::read(..).unwrap().unwrap().as_resp(): the panic it ends in, or ""
ReadFailure(msg) ==
    IF msg.type = "Eof" THEN "unwrap"
    ELSE IF msg.type # "Response" THEN "unreachable"
    ELSE ""

\* a read: the Response, if it is one, is bound to rsp
Read(msg) ==
    /\ rsp_id' = IF ReadFailure(msg) = "" THEN {msg.id} ELSE {}
    /\ rcvd' = Append(rcvd, Logged(LastWritten, msg))

\* a write; no Response is bound at that point
Write(msg) ==
    /\ wire' = Append(wire, msg)
    /\ rsp_id' = {}

Goto(p) == pc' = p /\ panic' = panic

\* Panic unwinding into Ctx::exit, as a handler that shuts the server down would
Panic_ThenExit(why) == pc' = "exit_send" /\ panic' = why

Panic(why) == pc' = "panicked" /\ panic' = why

\* the client at the start of the test, before Ctx::init
InitClient ==
    /\ pc = "init"
    /\ req_id = ReqIdStart
    /\ wire = <<>>
    /\ rsp_id = {}
    /\ rcvd = <<>>
    /\ delay_idx = 1
    /\ slept = <<>>
    /\ symbols = <<>>
    /\ idx = 1
    /\ stdout = <<>>
    /\ stderr = <<>>
    /\ panic = ""

\* a run against a server that may list any symbols
Init == workspace = "any" /\ InitClient

\* a run against a server that has indexed the sample workspace
InitSample == workspace = "sample" /\ InitClient

\* Init_SendInitialize going on without the read of the Response
Init_SendInitialize_NoRead ==
    /\ pc = "init"
    /\ req_id' = inc(req_id)
    /\ Write(Req(req_id', Initialize))
    /\ Goto("init_notify")
    /\ UNCHANGED <<workspace, rcvd, delay_idx, slept, symbols, idx, stdout, stderr>>

\* Ctx::init, the initialize Request
Init_SendInitialize ==
    /\ pc = "init"
    /\ req_id' = inc(req_id)
    /\ Write(Req(req_id', Initialize))
    /\ Goto("init_recv")
    /\ UNCHANGED <<workspace, rcvd, delay_idx, slept, symbols, idx, stdout, stderr>>

\* Init_RecvInitialize without the assert on rsp.error
Init_RecvInitialize_NoAssert ==
    /\ pc = "init_recv"
    /\ \E msg \in ServerMessages :
        /\ Read(msg)
        /\ IF ReadFailure(msg) # "" THEN Panic(ReadFailure(msg))
           ELSE Goto("init_notify")
    /\ UNCHANGED <<workspace, req_id, wire, delay_idx, slept, symbols, idx, stdout, stderr>>

\* Ctx::init, the read of the initialize Response and the assert
Init_RecvInitialize ==
    /\ pc = "init_recv"
    /\ \E msg \in ServerMessages :
        /\ Read(msg)
        /\ IF ReadFailure(msg) # "" THEN Panic(ReadFailure(msg))
           ELSE IF msg.error # {} THEN Panic("assert")
           ELSE Goto("init_notify")
    /\ UNCHANGED <<workspace, req_id, wire, delay_idx, slept, symbols, idx, stdout, stderr>>

\* Init_SendInitialized returning without the readiness wait
Init_SendInitialized_NoWait ==
    /\ pc = "init_notify"
    /\ Write(Notif(Initialized))
    /\ Goto("ws_send")
    /\ UNCHANGED <<workspace, req_id, rcvd, delay_idx, slept, symbols, idx, stdout, stderr>>

\* Ctx::init, the initialized Notification
Init_SendInitialized ==
    /\ pc = "init_notify"
    /\ Write(Notif(Initialized))
    /\ Goto("wait_begin")
    /\ UNCHANGED <<workspace, req_id, rcvd, delay_idx, slept, symbols, idx, stdout, stderr>>

\* Wait_MakeReq building the Request to clone without taking an id for it
Wait_MakeReq_NoInc ==
    /\ pc = "wait_begin"
    /\ req_id' = req_id
    /\ delay_idx' = 1
    /\ Goto("wait_send")
    /\ rsp_id' = {}
    /\ UNCHANGED <<workspace, wire, rcvd, slept, symbols, idx, stdout, stderr>>

\* wait_rust_analyzer_cargo_check, lines 65..73: the Request that every probe
\* is cloned from takes an id of its own and is never written.
Wait_MakeReq ==
    /\ pc = "wait_begin"
    /\ req_id' = inc(req_id)
    /\ delay_idx' = 1
    /\ Goto("wait_send")
    /\ rsp_id' = {}
    /\ UNCHANGED <<workspace, wire, rcvd, slept, symbols, idx, stdout, stderr>>

\* Wait_SendProbe writing every clone under the id the cloned Request took
Wait_SendProbe_SameId ==
    /\ pc = "wait_send"
    /\ delay_idx <= Len(delays)
    /\ req_id' = req_id
    /\ Write(Req(req_id, AnalyzerStatus))
    /\ Goto("wait_recv")
    /\ UNCHANGED <<workspace, rcvd, delay_idx, slept, symbols, idx, stdout, stderr>>

\* the loop body up to msg.write: the clone gets a fresh id and is written
Wait_SendProbe ==
    /\ pc = "wait_send"
    /\ delay_idx <= Len(delays)
    /\ req_id' = inc(req_id)
    /\ Write(Req(req_id', AnalyzerStatus))
    /\ Goto("wait_recv")
    /\ UNCHANGED <<workspace, rcvd, delay_idx, slept, symbols, idx, stdout, stderr>>

\* ProbeErrorIsFatal retrying on every error code
ProbeErrorIsFatal_Never(code) == FALSE

\* err.code != ContentModified: the probe's error ends the run
ProbeErrorIsFatal(code) == code # ContentModified

\* the read of the probe's Response and the if let Some(err)
Wait_RecvProbe ==
    /\ pc = "wait_recv"
    /\ \E msg \in ServerMessages :
        /\ Read(msg)
        /\ IF ReadFailure(msg) # "" THEN Panic(ReadFailure(msg)) /\ stdout' = stdout
           ELSE IF msg.error # {}
           THEN /\ IF \E c \in msg.error : ProbeErrorIsFatal(c)
                   THEN Panic("error")
                   ELSE Goto("wait_sleep")
                /\ stdout' = stdout
           ELSE /\ stdout' = Append(stdout, ReadyLine)
                /\ Goto("ws_send")
    /\ UNCHANGED <<workspace, req_id, wire, delay_idx, slept, symbols, idx, stderr>>

\* std::thread::sleep(delay_ms), then the next iteration
Wait_Sleep ==
    /\ pc = "wait_sleep"
    /\ slept' = Append(slept, delays[delay_idx])
    /\ delay_idx' = delay_idx + 1
    /\ Goto("wait_send")
    /\ rsp_id' = {}
    /\ UNCHANGED <<workspace, req_id, wire, rcvd, symbols, idx, stdout, stderr>>

\* Wait_Timeout starting the delays over, a wait that retries for ever
Wait_Timeout_Restart ==
    /\ pc = "wait_send"
    /\ delay_idx > Len(delays)
    /\ delay_idx' = 1
    /\ Goto("wait_send")
    /\ rsp_id' = {}
    /\ UNCHANGED <<workspace, req_id, wire, rcvd, slept, symbols, idx, stdout, stderr>>

\* Wait_Timeout returning from the wait when the delays are used up
Wait_Timeout_Proceeds ==
    /\ pc = "wait_send"
    /\ delay_idx > Len(delays)
    /\ Goto("ws_send")
    /\ rsp_id' = {}
    /\ UNCHANGED <<workspace, req_id, wire, rcvd, delay_idx, slept, symbols, idx, stdout, stderr>>

\* the loop is over: unreachable!("req_to_ra timeout")
Wait_Timeout ==
    /\ pc = "wait_send"
    /\ delay_idx > Len(delays)
    /\ Panic("req_to_ra timeout")
    /\ rsp_id' = {}
    /\ UNCHANGED <<workspace, req_id, wire, rcvd, delay_idx, slept, symbols, idx, stdout, stderr>>

\* SendReqIsFatal letting the busy error through, as the readiness wait does
SendReqIsFatal_ExceptBusy(error) == error # {} /\ error # {ContentModified}

\* send_req, if let Some(err) = rsp.error: any error ends the run
SendReqIsFatal(error) == error # {}

\* the panic a call of send_req ends in on reading msg, or ""
SendReqFailure(msg) ==
    IF ReadFailure(msg) # "" THEN ReadFailure(msg)
    ELSE IF SendReqIsFatal(msg.error) THEN "error"
    ELSE ""

\* the workspace/symbol Request; the progress token is the id just taken
Scan_SendWorkspaceSymbol ==
    /\ pc = "ws_send"
    /\ req_id' = inc(req_id)
    /\ Write([Req(req_id', WorkspaceSymbol) EXCEPT !.token = req_id'])
    /\ Goto("ws_recv")
    /\ UNCHANGED <<workspace, rcvd, delay_idx, slept, symbols, idx, stdout, stderr>>

\* serde_json::from_value::<Option<Vec<SymbolInformation>>>: the Result as
\* the set of its Ok values, each an Option
SymbolsFromValue(v) ==
    IF v.t = "symbols" THEN {{v.syms}} ELSE {}

\* Scan_RecvWorkspaceSymbol taking an absent result for an empty list
Scan_RecvWorkspaceSymbol_NullAsEmpty ==
    /\ pc = "ws_recv"
    /\ \E msg \in ServerMessages :
        /\ Read(msg)
        /\ IF SendReqFailure(msg) # ""
           THEN Panic(SendReqFailure(msg)) /\ UNCHANGED <<workspace, symbols, idx>>
           ELSE IF msg.result = {}
           THEN symbols' = <<>> /\ idx' = 1 /\ Goto("scan_loop")
           ELSE \E v \in msg.result :
                IF SymbolsFromValue(v) = {} \/ {} \in SymbolsFromValue(v)
                THEN Panic("unwrap") /\ UNCHANGED <<workspace, symbols, idx>>
                ELSE \E opt \in SymbolsFromValue(v) : \E list \in opt :
                        /\ symbols' = list
                        /\ idx' = 1
                        /\ Goto("scan_loop")
    /\ UNCHANGED <<workspace, req_id, wire, delay_idx, slept, stdout, stderr>>

\* send_req(workspace_symbol_req).unwrap(), from_value(..).unwrap() and the
\* unwrap() of the Option the for loop iterates
Scan_RecvWorkspaceSymbol ==
    /\ pc = "ws_recv"
    /\ \E msg \in ServerMessages :
        /\ Read(msg)
        /\ IF SendReqFailure(msg) # ""
           THEN Panic(SendReqFailure(msg)) /\ UNCHANGED <<workspace, symbols, idx>>
           ELSE IF msg.result = {}
           THEN Panic("unwrap") /\ UNCHANGED <<workspace, symbols, idx>>
           ELSE \E v \in msg.result :
                IF SymbolsFromValue(v) = {} \/ {} \in SymbolsFromValue(v)
                THEN Panic("unwrap") /\ UNCHANGED <<workspace, symbols, idx>>
                ELSE \E opt \in SymbolsFromValue(v) : \E list \in opt :
                        /\ symbols' = list
                        /\ idx' = 1
                        /\ Goto("scan_loop")
    /\ UNCHANGED <<workspace, req_id, wire, delay_idx, slept, stdout, stderr>>

\* IsCandidate without the test of the name
IsCandidate_AnyName(symbol) == symbol.kind = FUNCTION

\* the two continue of the loop body: only functions not named main are queried
IsCandidate(symbol) == symbol.kind = FUNCTION /\ symbol.name # "main"

\* Scan_Skip also passing over a symbol that the list held before
Scan_Skip_Duplicates ==
    /\ pc = "scan_loop"
    /\ idx <= Len(symbols)
    /\ \/ ~IsCandidate(symbols[idx])
       \/ \E j \in 1..(idx - 1) : symbols[j] = symbols[idx]
    /\ idx' = idx + 1
    /\ Goto("scan_loop")
    /\ rsp_id' = {}
    /\ UNCHANGED <<workspace, req_id, wire, rcvd, delay_idx, slept, symbols, stdout, stderr>>

\* a symbol that is filtered out: continue
Scan_Skip ==
    /\ pc = "scan_loop"
    /\ idx <= Len(symbols)
    /\ ~IsCandidate(symbols[idx])
    /\ idx' = idx + 1
    /\ Goto("scan_loop")
    /\ rsp_id' = {}
    /\ UNCHANGED <<workspace, req_id, wire, rcvd, delay_idx, slept, symbols, stdout, stderr>>

\* the references Request of a candidate, at its start advanced by "pub fn " + 1
Scan_SendReferences ==
    /\ pc = "scan_loop"
    /\ idx <= Len(symbols)
    /\ IsCandidate(symbols[idx])
    /\ req_id' = inc(req_id)
    /\ Write([Req(req_id', References) EXCEPT
                !.uri = symbols[idx].uri,
                !.line = symbols[idx].line,
                !.character = symbols[idx].character + PubFnOffset])
    /\ Goto("refs_recv")
    /\ UNCHANGED <<workspace, rcvd, delay_idx, slept, symbols, idx, stdout, stderr>>

\* serde_json::from_value::<GotoDefinitionResponse>, an untagged enum tried in
\* the order Scalar, Array, Link: the Result as the set of its Ok values
RefsFromValue(v) ==
    IF v.t = "location" THEN {[variant |-> "Scalar", len |-> 1]}
    ELSE IF v.t = "locations" THEN {[variant |-> "Array", len |-> v.n]}
    ELSE IF v.t = "links" THEN {[variant |-> "Link", len |-> v.n]}
    ELSE {}

\* refs_cnt counting a single Location as no reference
refs_cnt_ScalarZero(r) == IF r.variant = "Scalar" THEN 0 ELSE r.len

\* let refs_cnt = match rsp { Scalar(_) => 1, Array(arr) | Link(arr) => arr.len() }
refs_cnt(r) == IF r.variant = "Scalar" THEN 1 ELSE r.len

\* IsDead off by one
IsDead_AtMostOne(cnt) == cnt <= 1

\* if refs_cnt == 0
IsDead(cnt) == cnt = 0

\* send_req(find_refs_req) and the classification of its answer
Scan_RecvReferences ==
    /\ pc = "refs_recv"
    /\ \E msg \in ServerMessages :
        /\ Read(msg)
        /\ IF SendReqFailure(msg) # ""
           THEN Panic(SendReqFailure(msg)) /\ UNCHANGED <<workspace, idx, stdout, stderr>>
           ELSE IF msg.result = {}
           THEN /\ stdout' = Append(stdout, NoneLine)
                /\ idx' = idx + 1
                /\ Goto("scan_loop")
                /\ stderr' = stderr
           ELSE \E v \in msg.result :
                IF RefsFromValue(v) = {}
                THEN Panic("unwrap") /\ UNCHANGED <<workspace, idx, stdout, stderr>>
                ELSE \E r \in RefsFromValue(v) :
                        /\ stderr' = IF IsDead(refs_cnt(r))
                                     THEN Append(stderr, [path |-> symbols[idx].uri,
                                                          name |-> symbols[idx].name])
                                     ELSE stderr
                        /\ idx' = idx + 1
                        /\ Goto("scan_loop")
                        /\ stdout' = stdout
    /\ UNCHANGED <<workspace, req_id, wire, delay_idx, slept, symbols>>

\* the for loop over the symbols is over
Scan_Done ==
    /\ pc = "scan_loop"
    /\ idx > Len(symbols)
    /\ Goto("exit_send")
    /\ rsp_id' = {}
    /\ UNCHANGED <<workspace, req_id, wire, rcvd, delay_idx, slept, symbols, idx, stdout, stderr>>

\* Exit_SendShutdown going on to the exit Notification without the read
Exit_SendShutdown_NoRead ==
    /\ pc = "exit_send"
    /\ req_id' = inc(req_id)
    /\ Write(Req(req_id', Shutdown))
    /\ Goto("exit_notify")
    /\ UNCHANGED <<workspace, rcvd, delay_idx, slept, symbols, idx, stdout, stderr>>

\* Ctx::exit, the shutdown Request
Exit_SendShutdown ==
    /\ pc = "exit_send"
    /\ req_id' = inc(req_id)
    /\ Write(Req(req_id', Shutdown))
    /\ Goto("exit_recv")
    /\ UNCHANGED <<workspace, rcvd, delay_idx, slept, symbols, idx, stdout, stderr>>

\* Ctx::exit, self.send_req(exit_req): the result is dropped
Exit_RecvShutdown ==
    /\ pc = "exit_recv"
    /\ \E msg \in ServerMessages :
        /\ Read(msg)
        /\ IF SendReqFailure(msg) # ""
           THEN Panic(SendReqFailure(msg))
           ELSE Goto("exit_notify")
    /\ UNCHANGED <<workspace, req_id, wire, delay_idx, slept, symbols, idx, stdout, stderr>>

\* Ctx::exit, the exit Notification
Exit_SendExit ==
    /\ pc = "exit_notify"
    /\ Write(Notif(Exit))
    /\ Goto("wait_child")
    /\ UNCHANGED <<workspace, req_id, rcvd, delay_idx, slept, symbols, idx, stdout, stderr>>

\* lsp_server_process.wait().unwrap(): the child has exited
WaitChild ==
    /\ pc = "wait_child"
    /\ Goto("done")
    /\ rsp_id' = {}
    /\ UNCHANGED <<workspace, req_id, wire, rcvd, delay_idx, slept, symbols, idx, stdout, stderr>>

Next ==
    \/ Init_SendInitialize
    \/ Init_RecvInitialize
    \/ Init_SendInitialized
    \/ Wait_MakeReq
    \/ Wait_SendProbe
    \/ Wait_RecvProbe
    \/ Wait_Sleep
    \/ Wait_Timeout
    \/ Scan_SendWorkspaceSymbol
    \/ Scan_RecvWorkspaceSymbol
    \/ Scan_Skip
    \/ Scan_SendReferences
    \/ Scan_RecvReferences
    \/ Scan_Done
    \/ Exit_SendShutdown
    \/ Exit_RecvShutdown
    \/ Exit_SendExit
    \/ WaitChild

Spec == Init /\ [][Next]_vars

SpecSample == InitSample /\ [][Next]_vars

\* The client is one thread that takes its next step whenever it has one,
\* and a read returns whenever the server has answered: against a server
\* that answers every Request, no step of Next is put off for ever.
FairSpec == Spec /\ WF_vars(Next)

\* =================================================================
\* Properties
\* =================================================================
Range(seq) == { seq[i] : i \in 1..Len(seq) }

IsRequest(m) == m.type = "Request"
IsProbe(m) == m.type = "Request" /\ m.method = AnalyzerStatus
IsQuery(m) == m.type = "Request" /\ m.method \in {WorkspaceSymbol, References}

\* the Requests written so far, in send order
WireRequests == SelectSeq(wire, IsRequest)
LastRequest == WireRequests[Len(WireRequests)]

\* what the server answered, by the method it answered
IsProbeAnswer(a) == a.method = AnalyzerStatus
IsRefsAnswer(a) == a.method = References
ProbeAnswers == SelectSeq(rcvd, IsProbeAnswer)
RefsAnswers == SelectSeq(rcvd, IsRefsAnswer)

IsSuccess(a) == a.type = "Response" /\ a.error = {}
IsBusy(a) == a.type = "Response" /\ a.error = {ContentModified}
IsOtherError(a) ==
    a.type = "Response" /\ a.error # {} /\ a.error # {ContentModified}

CountIn(seq, Test(_)) == Len(SelectSeq(seq, Test))

\* the session is Ready when wait_rust_analyzer_cargo_check has returned,
\* which it reports on stdout
IsReadyLine(l) == l = ReadyLine
ReadyCount == CountIn(stdout, IsReadyLine)

\* the backoff sequence as the specification states it
BackoffSequence == <<40, 80, 160, 160, 320, 320, 640, 2560, 10240>>

\* ----------------------------------------------------------------- C1
\* C1: the ids of the Requests written to the transport are strictly
\* increasing in send order (each Request's id is less than the next one's,
\* hence all are pairwise distinct), the first being the first id the
\* allocator gives, 1; no probe carries the id of an earlier one.
C1_RequestIdsStrictlyIncreasing ==
    LET wr == WireRequests IN
    /\ \A i \in 1..(Len(wr) - 1) : wr[i].id < wr[i + 1].id
    /\ Len(wr) >= 1 => wr[1].id = 1 /\ wr[1].method = Initialize
    /\ Len(wr) >= 1 => wr[Len(wr)].id <= req_id

\* a completed run with two retried probes, a references query and a shutdown
C1_Witness ==
    /\ pc = "done"
    /\ CountIn(wire, IsProbe) = 3
    /\ \E m \in Range(wire) : m.method = References
    /\ \E m \in Range(wire) : m.method = Shutdown

\* ----------------------------------------------------------------- C2
\* C2: the Response the client acts on carries the id of the pending Request
\* (the Request written last).
C2_AcceptedResponseHasPendingId ==
    \A id \in rsp_id : id = LastRequest.id

\* ----------------------------------------------------------------- C3
\* C3: for every K < 9, when the probes were answered busy K times and then
\* with success, the readiness wait has returned after K+1 probes and K
\* sleeps, the first K entries of the backoff sequence in order, and no sleep
\* follows the success.
C3_BusyThenSuccess ==
    LET pa == ProbeAnswers IN
    \A K \in 0..8 :
        ( /\ Len(pa) = K + 1
          /\ \A i \in 1..K : IsBusy(pa[i])
          /\ IsSuccess(pa[K + 1]) )
        => /\ CountIn(wire, IsProbe) = K + 1
           /\ slept = SubSeq(BackoffSequence, 1, K)
           /\ ReadyCount = 1
           /\ pc \notin {"wait_send", "wait_recv", "wait_sleep"}
           /\ panic # "req_to_ra timeout"

\* eight busy answers, success on the ninth probe, and the run went on to its end
C3_Witness ==
    /\ pc = "done"
    /\ Len(ProbeAnswers) = 9
    /\ \A i \in 1..8 : IsBusy(ProbeAnswers[i])
    /\ IsSuccess(ProbeAnswers[9])
    /\ Len(slept) = 8

\* ----------------------------------------------------------------- C4
\* C4: when all 9 probes were answered busy, exactly 9 probes have been
\* written, no 10th can be written, the session is not Ready and the only
\* way on is the timeout panic.
C4_NineBusyIsTimeout ==
    LET pa == ProbeAnswers IN
    ( /\ Len(pa) = 9
      /\ \A i \in 1..9 : IsBusy(pa[i]) )
    => /\ CountIn(wire, IsProbe) = 9
       /\ ~ENABLED Wait_SendProbe
       /\ ReadyCount = 0
       /\ pc \in {"wait_sleep", "wait_send", "panicked"}
       /\ pc = "wait_send" => ENABLED Wait_Timeout
       /\ pc = "panicked" => panic = "req_to_ra timeout"
       /\ ~ \E m \in Range(wire) : IsQuery(m)

\* the run has ended in the timeout after nine busy answers
C4_Witness ==
    /\ pc = "panicked"
    /\ panic = "req_to_ra timeout"
    /\ Len(ProbeAnswers) = 9
    /\ Len(slept) = 9

\* ----------------------------------------------------------------- C5
IsPostReady(a) == a.method \in {WorkspaceSymbol, References, Shutdown}

\* C5: a busy answer to a Request sent after Ready (workspace/symbol,
\* references, shutdown) ends the run: it is the last message read, the
\* Request it answers is the last message written, and no sleep was made for
\* it (the sleeps are those of the busy probes).
C5_BusyAfterReadyIsFatal ==
    \A i \in 1..Len(rcvd) :
        (IsPostReady(rcvd[i]) /\ IsBusy(rcvd[i]))
        => /\ i = Len(rcvd)
           /\ pc = "panicked" /\ panic = "error"
           /\ LastWritten.type = "Request" /\ LastWritten.method = rcvd[i].method
           /\ Len(WireRequests) = i
           /\ Len(slept) = CountIn(ProbeAnswers, IsBusy)

\* a references query answered busy, after a readiness wait that slept
C5_Witness ==
    /\ pc = "panicked"
    /\ Len(rcvd) >= 1
    /\ rcvd[Len(rcvd)].method = References
    /\ IsBusy(rcvd[Len(rcvd)])
    /\ Len(slept) >= 1

\* ----------------------------------------------------------------- C6
\* C6: an error other than busy in the answer to a probe, at any probe
\* index, ends the run at once: it is the last message read, its probe is the
\* last message written, no sleep follows it and the session is not Ready.
C6_OtherErrorInWaitIsFatal ==
    \A i \in 1..Len(rcvd) :
        (IsProbeAnswer(rcvd[i]) /\ IsOtherError(rcvd[i]))
        => /\ i = Len(rcvd)
           /\ pc = "panicked" /\ panic = "error"
           /\ IsProbe(LastWritten)
           /\ Len(WireRequests) = i
           /\ Len(slept) = CountIn(ProbeAnswers, IsBusy)
           /\ ReadyCount = 0

\* the third probe is answered with another error after two busy answers
C6_Witness ==
    /\ pc = "panicked"
    /\ Len(ProbeAnswers) = 3
    /\ IsOtherError(ProbeAnswers[3])
    /\ Len(slept) = 2

\* ----------------------------------------------------------------- C7
\* the candidates as the specification defines them: functions not named main
FnNotMain(s) == s.kind = FUNCTION /\ s.name # "main"
Candidates == SelectSeq(symbols, FnNotMain)

IsAbsent(a) == IsSuccess(a) /\ a.result = "absent"
IsEmptyList(a) == IsSuccess(a) /\ a.result = "empty"

\* the findings the first k references answers call for: one (uri, name) per
\* candidate whose answer is a list of length 0, in order
RECURSIVE ExpectedFindings(_)
ExpectedFindings(k) ==
    IF k = 0 THEN <<>>
    ELSE IF IsEmptyList(RefsAnswers[k])
         THEN Append(ExpectedFindings(k - 1),
                     [path |-> Candidates[k].uri, name |-> Candidates[k].name])
         ELSE ExpectedFindings(k - 1)

IsNoneLine(l) == l = NoneLine

AfterScan == {"exit_send", "exit_recv", "exit_notify", "wait_child", "done"}

\* C7: the findings are exactly one (uri, name) for each candidate whose
\* references answer is a list of length 0 and none for an answer that is
\* absent or not empty; an absent answer does not end the run, and a scan
\* that is over has queried every candidate.
C7_FindingsFollowAnswers ==
    /\ Len(RefsAnswers) <= Len(Candidates)
    /\ stderr = ExpectedFindings(Len(RefsAnswers))
    /\ (Len(rcvd) >= 1 /\ IsRefsAnswer(rcvd[Len(rcvd)]) /\ IsAbsent(rcvd[Len(rcvd)]))
          => pc # "panicked" /\ panic = ""
    /\ CountIn(stdout, IsNoneLine) = CountIn(RefsAnswers, IsAbsent)
    /\ pc \in AfterScan => Len(RefsAnswers) = Len(Candidates)

\* a completed scan of two candidates: the first answer absent, the second a
\* list of length 0, one finding
C7_Witness ==
    /\ pc = "done"
    /\ Len(RefsAnswers) = 2
    /\ IsAbsent(RefsAnswers[1])
    /\ IsEmptyList(RefsAnswers[2])
    /\ Len(stderr) = 1

\* ----------------------------------------------------------------- C8
\* C8: every references Request is for a symbol of the list that is a
\* function and is not named main (the Request carries the symbol's uri and
\* its start advanced by 8), and so is every finding.
C8_OnlyCandidatesQueried ==
    /\ \A m \in Range(wire) :
          (m.type = "Request" /\ m.method = References)
          => /\ \E s \in Range(symbols) :
                  s.uri = m.uri /\ s.line = m.line /\ s.character + 8 = m.character
             /\ \A s \in Range(symbols) :
                  (s.uri = m.uri /\ s.line = m.line /\ s.character + 8 = m.character)
                  => s.kind = FUNCTION /\ s.name # "main"
    /\ \A f \in Range(stderr) :
          /\ f.name # "main"
          /\ \E s \in Range(symbols) :
               s.name = f.name /\ s.uri = f.path /\ s.kind = FUNCTION

\* a completed scan of a list holding main and a candidate, which was queried
C8_Witness ==
    /\ pc = "done"
    /\ \E s \in Range(symbols) : s.name = "main" /\ s.kind = FUNCTION
    /\ \E m \in Range(wire) : m.method = References

\* ----------------------------------------------------------------- C9
IsExit(m) == m.type = "Notification" /\ m.method = Exit
IsShutdown(m) == m.type = "Request" /\ m.method = Shutdown

\* C9: once the scan is over the next message written is the shutdown
\* Request; the exit Notification is written only after the shutdown Request
\* and after a Response was read for it (every Request written has been
\* answered, the last answer being the shutdown's), whatever the findings.
C9_ShutdownAnsweredBeforeExit ==
    /\ pc = "exit_send" => ENABLED Exit_SendShutdown /\ ~ENABLED Exit_SendExit
    /\ pc \in AfterScan \ {"exit_send"} => IsShutdown(LastRequest)
    /\ \A i \in 1..Len(wire) :
          IsExit(wire[i])
          => /\ i = Len(wire) /\ i > 1 /\ IsShutdown(wire[i - 1])
             /\ Len(rcvd) = Len(WireRequests)
             /\ rcvd[Len(rcvd)].method = Shutdown
             /\ IsSuccess(rcvd[Len(rcvd)])

\* a run that ended after a scan with a finding
C9_Witness ==
    /\ pc = "done"
    /\ Len(stderr) >= 1
    /\ IsExit(LastWritten)

\* ---------------------------------------------------------------- C10
\* C10: Ready is entered at most once; a workspace/symbol or references
\* Request is written only when Ready was entered, after an earlier probe
\* was answered with success.
C10_ReadyOnceBeforeQueries ==
    LET wr == WireRequests
        ready == ReadyCount
    IN
    /\ ready <= 1
    /\ \A i \in 1..Len(wr) :
          IsQuery(wr[i])
          => /\ ready = 1
             /\ \E j \in 1..(i - 1) :
                  /\ j <= Len(rcvd)
                  /\ IsProbe(wr[j])
                  /\ IsProbeAnswer(rcvd[j])
                  /\ IsSuccess(rcvd[j])

\* a completed run that retried the probe and then issued both queries
C10_Witness ==
    /\ pc = "done"
    /\ Len(slept) >= 1
    /\ \E m \in Range(wire) : m.method = WorkspaceSymbol
    /\ \E m \in Range(wire) : m.method = References

\* ---------------------------------------------------------------- C11
IsResponse(a) == a.type = "Response"

\* the positions at which the client is blocked in Message::read
RecvPcs == {"init_recv", "wait_recv", "ws_recv", "refs_recv", "exit_recv"}

\* C11: at most one Request is outstanding: the Requests written exceed the
\* reads made (and the Responses consumed) by at most one, by one exactly
\* while the client is blocked in a read, and then the Request is the last
\* message written; there are never more reads than Requests, so no read is
\* made for a Notification.
C11_OneRequestOutstanding ==
    LET out == Len(WireRequests) - Len(rcvd) IN
    /\ out \in {0, 1}
    /\ out = 1 <=> pc \in RecvPcs
    /\ out = 1 => IsRequest(LastWritten)
    /\ Len(WireRequests) - CountIn(rcvd, IsResponse) <= 1

\* a completed run: two Notifications written, every Request read for once
C11_Witness ==
    /\ pc = "done"
    /\ Len(rcvd) = Len(WireRequests)
    /\ Len(wire) = Len(rcvd) + 2
    /\ Len(rcvd) >= 6

\* ---------------------------------------------------------------- C12
IsNotResponse(a) == a.type \in {"Notification", "Request"}

\* C12: a Notification or a Request read where a Response is awaited ends
\* the run in as_resp: it is the last message read, the Request that was
\* pending is the last message written, and nothing is read or written after.
C12_NonResponseIsFatal ==
    \A i \in 1..Len(rcvd) :
        IsNotResponse(rcvd[i])
        => /\ i = Len(rcvd)
           /\ pc = "panicked" /\ panic = "unreachable"
           /\ IsRequest(LastWritten) /\ LastWritten.method = rcvd[i].method
           /\ Len(WireRequests) = i
           /\ ~ENABLED Next

\* a Notification read while a references Request is pending
C12_Witness ==
    /\ pc = "panicked"
    /\ Len(rcvd) >= 1
    /\ rcvd[Len(rcvd)].method = References
    /\ rcvd[Len(rcvd)].type = "Notification"

\* ---------------------------------------------------------------- C13
IsRefsRequest(m) == m.type = "Request" /\ m.method = References
RefsRequests == SelectSeq(wire, IsRefsRequest)

\* the name of the symbol of the workspace a references Request is for: the
\* one declared in the Request's document at the Request's line
QueriedName(m) ==
    (CHOOSE s \in SymbolUniverse : s.uri = m.uri /\ s.line = m.line).name

IsNonEmptyList(a) == IsSuccess(a) /\ a.result = "nonempty"

SymbolNames == { symbols[i].name : i \in 1..Len(symbols) }

\* the server answered every query for used_pub with a list that is not
\* empty and every query for unused_pub with an empty list
SampleAnswers ==
    LET rq == RefsRequests
        ra == RefsAnswers
    IN \A k \in 1..Len(ra) :
          /\ QueriedName(rq[k]) = "used_pub" => IsNonEmptyList(ra[k])
          /\ QueriedName(rq[k]) = "unused_pub" => IsEmptyList(ra[k])

\* C13: when the symbol list holds used_pub, unused_pub and main and the
\* server answers as in SampleAnswers, the completed scan has emitted one
\* finding, for unused_pub, and none for used_pub or main.
C13_SampleHasOneFinding ==
    ( /\ pc \in AfterScan
      /\ {"used_pub", "unused_pub", "main"} \subseteq SymbolNames
      /\ Len(symbols) = 3
      /\ SampleAnswers )
    => stderr = << [path |-> "crates/pub_util/src/lib.rs", name |-> "unused_pub"] >>

\* the run on the sample is over, with the answers of SampleAnswers
C13_Witness ==
    /\ pc = "done"
    /\ workspace = "sample"
    /\ {"used_pub", "unused_pub", "main"} \subseteq SymbolNames
    /\ Len(RefsAnswers) = 2
    /\ SampleAnswers
    /\ Len(stderr) = 1

\* ---------------------------------------------------------------- C14
\* The finding set that a symbol list and the references answers given for
\* its candidates (functions not named main, in order) determine: one
\* (uri, name) for each candidate answered with an empty list.  It reads no
\* variable: neither ids nor sleeps nor the number of probes.
FindingsOf(list, answers) ==
    LET cands == SelectSeq(list, FnNotMain) IN
    { [path |-> cands[k].uri, name |-> cands[k].name] :
        k \in { j \in 1..Len(answers) : j <= Len(cands) /\ IsEmptyList(answers[j]) } }

\* C14: the finding set of a completed scan is FindingsOf the symbol list
\* and the references answers the server gave, whatever the request ids and
\* the readiness retries of the run: two scans given the same list and the
\* same answers emit the same set.
C14_FindingsDependOnAnswersOnly ==
    pc \in AfterScan => Range(stderr) = FindingsOf(symbols, RefsAnswers)

\* a completed scan with a finding in a run that retried the probe twice
C14_Witness ==
    /\ pc = "done"
    /\ Len(slept) = 2
    /\ Len(RefsAnswers) = 2
    /\ Len(stderr) >= 1

\* ---------------------------------------------------------------- C15
IsInitialize(m) == m.type = "Request" /\ m.method = Initialize
IsInitialized(m) == m.type = "Notification" /\ m.method = Initialized

\* C15: the first message written is the initialize Request; the
\* initialized Notification is the second, written only when the Response
\* read for initialize carried no error; every probe is written after it;
\* an initialize Response with an error ends the run with nothing but the
\* initialize Request written.
C15_HandshakeOrder ==
    /\ Len(wire) >= 1 => IsInitialize(wire[1])
    /\ \A i \in 1..Len(wire) :
          IsInitialized(wire[i])
          => i = 2 /\ Len(rcvd) >= 1 /\ rcvd[1].method = Initialize /\ IsSuccess(rcvd[1])
    /\ \A i \in 1..Len(wire) :
          IsProbe(wire[i]) => i >= 3 /\ IsInitialized(wire[2])
    /\ (Len(rcvd) >= 1 /\ IsResponse(rcvd[1]) /\ rcvd[1].error # {})
          => pc = "panicked" /\ panic = "assert" /\ Len(wire) = 1

\* the initialize Response carried an error and the run has ended
C15_Witness ==
    /\ pc = "panicked"
    /\ Len(rcvd) = 1
    /\ IsResponse(rcvd[1])
    /\ rcvd[1].error = {ContentModified}

\* ---------------------------------------------------------------- C16
\* what a read returned that ends the run: a message that is no Response, or
\* a Response with an error, the busy answer to a probe excepted
IsFatalRead(a) ==
    \/ ~IsResponse(a)
    \/ a.error # {} /\ ~(a.method = AnalyzerStatus /\ a.error = {ContentModified})

\* C16: every fatal read ends the run, and once the run has ended in a
\* panic no step follows: the last message written is the Request whose
\* answer was awaited, no exit Notification was written, a shutdown Request
\* only if it is that last Request, and the child is not waited on.
C16_NothingAfterFatal ==
    /\ \A i \in 1..Len(rcvd) : IsFatalRead(rcvd[i]) => panic # ""
    /\ panic # ""
          => /\ pc = "panicked"
             /\ ~ENABLED Next
             /\ IsRequest(LastWritten)
             /\ Len(WireRequests) = Len(rcvd)
             /\ \A i \in 1..Len(wire) : ~IsExit(wire[i])
             /\ \A i \in 1..Len(wire) : IsShutdown(wire[i]) => i = Len(wire)

\* the workspace/symbol Request was answered with an error and the run has ended
C16_Witness ==
    /\ pc = "panicked"
    /\ panic = "error"
    /\ Len(rcvd) >= 1
    /\ rcvd[Len(rcvd)].method = WorkspaceSymbol
    /\ rcvd[Len(rcvd)].error # {}

\* ---------------------------------------------------------------- C17
\* C17: the references Requests written are for the candidates of the list
\* in list order, the k-th Request for the k-th candidate occurrence, all of
\* them once the scan is over; while the k-th Request is pending k-1 answers
\* were read and the findings they call for are already emitted.
C17_QueriesFollowListOrder ==
    LET rq == RefsRequests
        cands == Candidates
        ra == RefsAnswers
    IN
    /\ Len(rq) <= Len(cands)
    /\ \A k \in 1..Len(rq) :
          /\ rq[k].uri = cands[k].uri
          /\ rq[k].line = cands[k].line
          /\ rq[k].character = cands[k].character + 8
    /\ pc \in AfterScan => Len(rq) = Len(cands)
    /\ Len(ra) = IF pc = "refs_recv" THEN Len(rq) - 1 ELSE Len(rq)
    /\ stderr = ExpectedFindings(Len(ra))

\* a list that holds unused_pub twice: two Requests, two findings
C17_Witness ==
    /\ pc = "done"
    /\ Len(symbols) = 2
    /\ symbols[1] = symbols[2]
    /\ Len(RefsRequests) = 2
    /\ Len(stderr) = 2

\* ---------------------------------------------------------------- C18
\* the run is over: the exit Notification is written, or the run has panicked
RunEnded == pc \in {"wait_child", "done", "panicked"}

\* C18: against a server that answers every Request, every run ends, in
\* Exited or in a panic; at all times at most 9 probes are written and at
\* most one references Request per symbol of the list, and the timeout
\* panic comes only after the 9 probes and their 9 sleeps.
C18_EveryRunEnds ==
    /\ [](/\ CountIn(wire, IsProbe) <= 9
          /\ Len(RefsRequests) <= Len(symbols)
          /\ (panic = "req_to_ra timeout" => Len(slept) = 9))
    /\ <>RunEnded

\* a run that ended in Exited after eight retries and two references Requests
C18_Witness ==
    /\ pc = "done"
    /\ Len(slept) = 8
    /\ Len(RefsRequests) = 2

\* ---------------------------------------------------------------- C19
\* the ids allocated so far are 1..req_id; those no written Request carries
UnwrittenIds == (1..req_id) \ {WireRequests[i].id : i \in 1..Len(WireRequests)}

\* the readiness probes written so far, in send order
Probes == SelectSeq(wire, IsProbe)

\* C19 as stated: every allocated id is carried by a written Request and
\* the ids on the wire are consecutive from 1: the initialize Request has
\* id 1, the n-th probe has id 1+n, and each Request has the id following
\* the previously written Request's id.
C19_IdsConsecutive ==
    LET w == WireRequests IN
    /\ UnwrittenIds = {}
    /\ \A i \in 1..Len(w) : w[i].id = i
    /\ \A n \in 1..Len(Probes) : Probes[n].id = 1 + n

\* C19: the initialize Request has id 1; id 2 is allocated for the Request
\* the probes are cloned from and is carried by no written Request; the
\* n-th probe has id 2+n; every Request after the first probe has the id
\* following the previously written Request's id; no id is carried twice
\* and no other allocated id goes unwritten.
C19_IdsSkipTheTemplate ==
    LET w == WireRequests IN
    /\ \A i \in 1..Len(w) : IsInitialize(w[i]) <=> i = 1
    /\ \A i \in 1..Len(w) : w[i].id = IF i = 1 THEN 1 ELSE i + 1
    /\ \A n \in 1..Len(Probes) : Probes[n].id = 2 + n
    /\ UnwrittenIds \subseteq {2}
    /\ Len(Probes) >= 1 => UnwrittenIds = {2}

\* a finished run with two probes and a references Request behind it
C19_Witness ==
    /\ pc = "done"
    /\ Len(Probes) = 2
    /\ Len(RefsRequests) >= 1
    /\ UnwrittenIds = {2}

\* ---------------------------------------------------------------- C20
IsWsAnswer(a) == a.method = WorkspaceSymbol

\* the workspace/symbol Request was answered by a successful Response whose
\* result is absent (null)
WsAbsent == \E i \in 1..Len(rcvd) : IsWsAnswer(rcvd[i]) /\ IsAbsent(rcvd[i])

\* C20 as stated: an absent result of workspace/symbol is taken for an empty
\* candidate list: no panic, no references Request, no finding, and the run
\* goes on to shutdown and exit.
C20_AbsentSymbolsIsEmptyList ==
    WsAbsent
       => /\ panic = ""
          /\ pc \in {"scan_loop"} \cup AfterScan
          /\ RefsRequests = <<>>
          /\ stderr = <<>>

\* C20: an absent (null) result in a successful Response to the
\* workspace/symbol Request is fatal: the unwrap of send_req's Option
\* panics, the client takes no further step, and no references Request, no
\* finding, no shutdown Request and no exit Notification is written.
C20_AbsentSymbolsIsFatal ==
    WsAbsent
       => /\ pc = "panicked"
          /\ panic = "unwrap"
          /\ ~ENABLED Next
          /\ IsWsAnswer(rcvd[Len(rcvd)])
          /\ RefsRequests = <<>>
          /\ stderr = <<>>
          /\ \A i \in 1..Len(wire) : ~IsShutdown(wire[i]) /\ ~IsExit(wire[i])

\* the run that panicked on an absent workspace/symbol result
C20_Witness ==
    /\ WsAbsent
    /\ pc = "panicked"
    /\ LastWritten.method = WorkspaceSymbol

====
